---- MODULE Spec2Model ----
(***************************************************************************)
(* editer: mutating a list in place while iterating over it.               *)
(*                                                                         *)
(* The model follows src/src/lib.rs (edit, try_edit, List, Stride),        *)
(* src/src/slot.rs (Slot) and the SmallVec implementation of List in       *)
(* src/src/integrations/smallvec.rs.  One action is one iteration of the   *)
(* while loop of edit / try_edit: the bound check, the construction of the *)
(* Stride and the Slot, the whole call of the editor closure, and the      *)
(* advance of the index.                                                   *)
(*                                                                         *)
(* An item of the list is a record [v, id]: v is the value the program     *)
(* sees, id is a history tag (the 1-based position the item had when the   *)
(* walk started, 0 for an item created during the walk).  No operation of  *)
(* the program reads id.                                                   *)
(***************************************************************************)
EXTENDS Integers, Sequences, FiniteSets, TLC

\* ---------------------------------------------------------------- bounds
\* Longest list handed to edit / try_edit, apart from the documentation list.
MaxLen == 3
\* Most items an arbitrary closure passes to one insert / replace call.
MaxIns == 2

\* ---------------------------------------------------------------- inputs
\* The list of every documentation example and test: vec![1, 2, 3, 4, 5].
DocList == <<1, 2, 3, 4, 5>>

\* Values of the items of the list the walk starts from.
Vals == 1..5

\* Values of the lists that may contain duplicates.
SmallVals == {1, 2}

\* The errors a closure given to try_edit may return.
Errs == {"Whoops!", "Oops"}

\* The first n of the new values 6, 7, 8, ... used by the examples.
NewItems(n) == [j \in 1..n |-> 5 + j]

SeqsUpTo(S, n) == UNION {[1..m -> S] : m \in 0..n}

\* The lists a walk may start from.
InitSeqs == {DocList} \cup SeqsUpTo(SmallVals, MaxLen)
                      \cup {SubSeq(DocList, 1, n) : n \in 0..MaxLen}

VARIABLES
    fn,       \* "edit" or "try_edit": the function called
    cb,       \* the editor closure given to it
    orig,     \* the values of the list when the walk started
    items,    \* the list
    index,    \* the local `index` of edit / try_edit
    stride,   \* the Stride of the latest iteration
    pc,       \* "loop" at the loop head, "done" after the return
    result,   \* "running"; "unit" (edit returned); "ok" (Ok(())); the error
              \* of Err; or "panic"
    calls     \* history: one record per call of the closure, in order

vars == <<fn, cb, orig, items, index, stride, pc, result, calls>>

\* ------------------------------------------------- SmallVec (the library)
\* An index out of bounds makes SmallVec panic.  PanicItem stands for the
\* item a panicking read never yields, Panic for the list a panicking call
\* leaves behind; no item of a list has the tag of PanicItem.
PanicItem == [v |-> 0, id |-> 0 - 1]

Panic == <<PanicItem>>

\* SmallVec::insert(index, element): shifts the elements at index.. right;
\* panics if index > len.
SmallVecInsert(l, i, x) ==
    IF l = Panic \/ i > Len(l) THEN Panic
    ELSE SubSeq(l, 1, i) \o <<x>> \o SubSeq(l, i + 1, Len(l))

\* SmallVec::remove(index): shifts the elements after index left; panics if
\* index >= len.
SmallVecRemove(l, i) ==
    IF l = Panic \/ i >= Len(l) THEN Panic
    ELSE SubSeq(l, 1, i) \o SubSeq(l, i + 2, Len(l))

\* ------------------------------------------------ impl List for SmallVec
ListLen(l) == Len(l)

\* `&self[index]`: panics if index >= len.
ListIndex(l, i) == IF l = Panic \/ i >= Len(l) THEN PanicItem ELSE l[i + 1]

\* `*list.index_mut(i) = x`, index_mut being `&mut self[index]`.
ListIndexMutSet(l, i, x) ==
    IF l = Panic \/ i >= Len(l) THEN Panic ELSE [l EXCEPT ![i + 1] = x]

\* for (offset, item) in items.enumerate() { insert(index + offset, item) }
\* Mutant: every item inserted at `index`, the offset forgotten.
RECURSIVE InsertLoop_NoOffset(_, _, _, _)
InsertLoop_NoOffset(l, i, its, offset) ==
    IF offset >= Len(its) \/ l = Panic THEN l
    ELSE InsertLoop_NoOffset(SmallVecInsert(l, i, its[offset + 1]), i, its, offset + 1)

RECURSIVE InsertLoop(_, _, _, _)
InsertLoop(l, i, its, offset) ==
    IF offset >= Len(its) \/ l = Panic THEN l
    ELSE InsertLoop(SmallVecInsert(l, i + offset, its[offset + 1]), i, its, offset + 1)

ListInsert(l, i, its) == InsertLoop(l, i, its, 0)

ListRemove(l, i) == SmallVecRemove(l, i)

\* Mutant: the remaining items inserted at `index`, not `index + 1`.
ListReplace_TailAtIndex(l, i, its) ==
    IF its # <<>>
    THEN ListInsert(ListIndexMutSet(l, i, Head(its)), i, Tail(its))
    ELSE ListRemove(l, i)

\* Mutant: the item at `index` not overwritten, the items inserted before it.
ListReplace_KeepsCurrent(l, i, its) ==
    IF its # <<>>
    THEN ListInsert(l, i, its)
    ELSE ListRemove(l, i)

\* The default List::replace.
ListReplace(l, i, its) ==
    IF its # <<>>
    THEN ListInsert(ListIndexMutSet(l, i, Head(its)), i + 1, Tail(its))
    ELSE ListRemove(l, i)

\* ------------------------------------------------ impl List for TinyVec
\* The override of List::replace: TinyVec::splice(index..index + 1, items),
\* dropped at once: the range is removed and the items put in its place.
TinyVecReplace(l, i, its) == SubSeq(l, 1, i) \o its \o SubSeq(l, i + 2, Len(l))

\* ------------------------------------------------------------------ Slot
\* Every structural method consumes the Slot and yields the list and the
\* value left in the Stride.
SlotGet(l, i) == ListIndex(l, i)

\* Mutant: the stride does not count the current item.
SlotInsertBefore_StrideLen(l, i, its) ==
    [list |-> ListInsert(l, i, its), stride |-> Len(its)]

\* Mutant: the items inserted at `index + 1`.
SlotInsertBefore_After(l, i, its) ==
    [list |-> ListInsert(l, i + 1, its), stride |-> Len(its) + 1]

SlotInsertBefore(l, i, its) ==
    [list |-> ListInsert(l, i, its), stride |-> Len(its) + 1]

\* Mutant: the stride does not count the current item.
SlotInsertAfter_StrideLen(l, i, its) ==
    [list |-> ListInsert(l, i + 1, its), stride |-> Len(its)]

\* Mutant: the items inserted at `index`.
SlotInsertAfter_AtIndex(l, i, its) ==
    [list |-> ListInsert(l, i, its), stride |-> Len(its) + 1]

\* Mutant: the items inserted one position further.
SlotInsertAfter_Beyond(l, i, its) ==
    [list |-> ListInsert(l, i + 2, its), stride |-> Len(its) + 1]

SlotInsertAfter(l, i, its) ==
    [list |-> ListInsert(l, i + 1, its), stride |-> Len(its) + 1]

\* Mutant: the stride never below 1.
SlotReplace_StrideAtLeastOne(l, i, its) ==
    [list |-> ListReplace(l, i, its), stride |-> IF its = <<>> THEN 1 ELSE Len(its)]

SlotReplace(l, i, its) ==
    [list |-> ListReplace(l, i, its), stride |-> Len(its)]

\* Mutant: the built items inserted before the current item, which is kept.
SlotReplaceWith_KeepsOld(l, i, built) ==
    SlotInsertBefore(l, i, built)

\* replace_with: `let items = build(&self); self.replace(items)`; built is
\* what build returned for the current item.
SlotReplaceWith(l, i, built) ==
    SlotReplace(l, i, built)

\* Mutant: the stride left at 1 after the removal.
SlotRemove_KeepsStride(l, i) ==
    [list |-> ListRemove(l, i), stride |-> 1]

SlotRemove(l, i) ==
    [list |-> ListRemove(l, i), stride |-> 0]

\* ------------------------------------------------------ the editor closure
\* What one call of the closure does with its Slot: an optional in-place
\* write (`*item = w`, 0 for none), then at most one structural method
\* (every one of them takes `self`), then its return value ("ok" for () and
\* Ok(()), otherwise the error of Err).
\*   act: "none", "insert_before", "insert_after", "replace", "replace_with",
\*        "remove";  its: the items given to it;  b: the `build` closure given
\*        to replace_with.
Op(w, act, its, b, ret) == [w |-> w, act |-> act, its |-> its, b |-> b, ret |-> ret]

NoEditOp == Op(0, "none", <<>>, 0, "ok")

\* The `build` closures: |item| [item + 3, item + 4, ...] with b items.
Build(b, x) == [j \in 1..b |-> x + 2 + j]

\* An editor closure.  kind "any" is a closure whose choice at each call is
\* unconstrained (an FnMut with state of its own); the other kinds are the
\* closures of the documentation and the tests, which decide on the value of
\* the item alone.
Closure(kind, P, x, y, w, A, B, act, e) ==
    [kind |-> kind, P |-> P, x |-> x, y |-> y, w |-> w, A |-> A, B |-> B,
     act |-> act, e |-> e]

AnyClosure == Closure("any", {}, 0, 0, 0, <<>>, <<>>, "none", "ok")

\* |item| if P(item) { item.remove() }
RemoveWhereClosures == {Closure("removeWhere", P, 0, 0, 0, <<>>, <<>>, "none", "ok") :
                          P \in SUBSET Vals}

\* |item| if item == x { Err(e) } else { item.remove(); Ok(()) }
FailAtClosures == {Closure("failAt", {}, x, 0, 0, <<>>, <<>>, "none", e) :
                     x \in Vals, e \in Errs}

\* |item| if item == x { item.insert_after(A) } else if item == y { item.insert_before(B) }
InsertPairClosures ==
    {Closure("insertPair", {}, xy[1], xy[2], 0, AB[1], AB[2], "none", "ok") :
       xy \in {p \in (1..3) \X (1..3) : p[1] # p[2]},
       AB \in {<< <<6>>, <<7>> >>, << <<6, 7>>, <<8, 9>> >>, << <<>>, <<6>> >>}}

\* |mut item| { if item == x { *item = w }  if item == y { item.replace(A) } }
WriteReplaceClosures ==
    {Closure("writeReplace", {}, xy[1], xy[2], 6, A, <<>>, "none", "ok") :
       xy \in (1..3) \X {2, 3, 6}, A \in {<<7>>, <<7, 8>>, <<7, 8, 9>>}}

\* |item| if item == x { item.<act>(A) }, and
\* |mut item| if item == x { *item = w; item.<act>(A) }
SingleClosures ==
    {Closure("single", {}, x, 0, w, NewItems(n), <<>>, act, "ok") :
       x \in Vals, w \in {0, 6}, n \in {0, 1, 3},
       act \in {"insert_before", "insert_after", "replace"}}

\* |item| if P(item) { item.replace_with(|item| [item + 3, ...]) } with y
\* items built; P is one value or every value.
ReplaceWithClosures ==
    {Closure("replaceWith", P, 0, n, 0, <<>>, <<>>, "replace_with", "ok") :
       P \in {{x} : x \in Vals} \cup {Vals}, n \in {0, 1, 3}}

\* |mut item| if item == x { *item = 6 }
WriteClosures == {Closure("write", {}, x, 0, 6, <<>>, <<>>, "none", "ok") : x \in Vals}

Closures == {AnyClosure} \cup RemoveWhereClosures \cup FailAtClosures
              \cup InsertPairClosures \cup WriteReplaceClosures \cup SingleClosures
              \cup ReplaceWithClosures \cup WriteClosures

\* What a closure that decides on the value does when called with value v.
Decide(c, v) ==
    CASE c.kind = "removeWhere" ->
           IF v \in c.P THEN Op(0, "remove", <<>>, 0, "ok") ELSE NoEditOp
      [] c.kind = "failAt" ->
           IF v = c.x THEN Op(0, "none", <<>>, 0, c.e)
           ELSE Op(0, "remove", <<>>, 0, "ok")
      [] c.kind = "insertPair" ->
           IF v = c.x THEN Op(0, "insert_after", c.A, 0, "ok")
           ELSE IF v = c.y THEN Op(0, "insert_before", c.B, 0, "ok")
           ELSE NoEditOp
      [] c.kind = "writeReplace" ->
           LET w  == IF v = c.x THEN c.w ELSE 0
               v2 == IF w # 0 THEN w ELSE v
           IN  IF v2 = c.y THEN Op(w, "replace", c.A, 0, "ok")
               ELSE Op(w, "none", <<>>, 0, "ok")
      [] c.kind = "single" ->
           IF v = c.x THEN Op(c.w, c.act, c.A, 0, "ok") ELSE NoEditOp
      [] c.kind = "replaceWith" ->
           IF v \in c.P THEN Op(0, "replace_with", <<>>, c.y, "ok") ELSE NoEditOp
      [] c.kind = "write" ->
           IF v = c.x THEN Op(c.w, "none", <<>>, 0, "ok") ELSE NoEditOp

\* What a closure of kind "any" may do in one call: nothing, a write, or one
\* structural method, and, given to try_edit, then Ok(()) or Err("Oops"); or
\* Err("Whoops!") at once, as in the documentation.
AnyEdits ==
    {Op(w, "none", <<>>, 0, "ok") : w \in {0, 6}}
    \cup {Op(0, "remove", <<>>, 0, "ok")}
    \cup {Op(0, act, NewItems(n), 0, "ok") :
             act \in {"insert_before", "insert_after", "replace"}, n \in 0..MaxIns}
    \cup {Op(0, "replace_with", <<>>, n, "ok") : n \in 0..MaxIns}

AnyOps(f) ==
    IF f = "try_edit"
    THEN AnyEdits \cup {[op EXCEPT !.ret = "Oops"] : op \in AnyEdits}
                  \cup {Op(0, "none", <<>>, 0, "Whoops!")}
    ELSE AnyEdits

\* The calls closure c may make when it is handed an item of value v.
Callback(f, c, v) == IF c.kind = "any" THEN AnyOps(f) ELSE {Decide(c, v)}

\* ---------------------------------------------------------- edit, try_edit
\* Items created by the closure carry the history tag 0.
New(its) == [j \in 1..Len(its) |-> [v |-> its[j], id |-> 0]]

ValuesOf(l) == [j \in 1..Len(l) |-> l[j].v]

\* Mutant: the Stride constructed as 0.
StrideNew_Zero == 1 - 1

\* `let mut stride = Stride(1)`
StrideNew == 1

\* Mutant: the Stride constructed once, before the loop, so that a call
\* without a structural method finds the stride of the call before it.
SlotCall_CarriesStride(op, l, i) ==
    CASE op.act = "none"          -> [list |-> l, stride |-> stride]
      [] op.act = "insert_before" -> SlotInsertBefore(l, i, New(op.its))
      [] op.act = "insert_after"  -> SlotInsertAfter(l, i, New(op.its))
      [] op.act = "replace"       -> SlotReplace(l, i, New(op.its))
      [] op.act = "replace_with"  -> SlotReplaceWith(l, i, New(Build(op.b, SlotGet(l, i).v)))
      [] op.act = "remove"        -> SlotRemove(l, i)

\* The structural method `op` names, called on Slot::new(l, i, Stride(1)).
\* "none" leaves the Stride at the 1 it was constructed with;
\* replace_with calls build(&self) and then self.replace(items).
SlotCall(op, l, i) ==
    CASE op.act = "none"          -> [list |-> l, stride |-> StrideNew]
      [] op.act = "insert_before" -> SlotInsertBefore(l, i, New(op.its))
      [] op.act = "insert_after"  -> SlotInsertAfter(l, i, New(op.its))
      [] op.act = "replace"       -> SlotReplace(l, i, New(op.its))
      [] op.act = "replace_with"  -> SlotReplaceWith(l, i, New(Build(op.b, SlotGet(l, i).v)))
      [] op.act = "remove"        -> SlotRemove(l, i)

\* Mutant: the write lands on the item after the current item.
SlotWrite_Next(l, i, w) == ListIndexMutSet(l, i + 1, [v |-> w, id |-> SlotGet(l, i).id])

\* `*item = w`: DerefMut::deref_mut is get_mut, list.index_mut(index).
SlotWrite(l, i, w) == ListIndexMutSet(l, i, [v |-> w, id |-> SlotGet(l, i).id])

\* Mutant: the result of the closure dropped, no `?`.
Halts_Never(ret) == FALSE

\* Mutant: try_edit returns after the first call, whatever its result.
Halts_Always(ret) == TRUE

\* The `?` of try_edit: an Err returned by the closure returns from try_edit
\* at once.  The closure given to edit returns ().
Halts(ret) == ret # "ok"

\* Mutant: the index advanced before the result of the closure is looked at.
Advance_Always(i, s, ret) == i + s

\* index after the iteration: `index += stride.get()`, not reached when the
\* `?` has returned.
Advance(i, s, ret) == IF Halts(ret) THEN i ELSE i + s

\* How the call of the closure ends: with a panic if a read of the item (the
\* closures that decide on its value all read it), the write or the
\* structural method met an index out of bounds, otherwise with the value
\* the closure returns.
Outcome(c, op, cur, l) ==
    IF (c.kind # "any" /\ cur = PanicItem) \/ l = Panic THEN "panic" ELSE op.ret

\* One iteration of `while index < items.len()` in which the closure does op.
\* A panic unwinds out of edit / try_edit like an error leaves try_edit.
Iteration(op) ==
    LET cur == SlotGet(items, index)
        l1  == IF op.w # 0 THEN SlotWrite(items, index, op.w) ELSE items
        r   == SlotCall(op, l1, index)
        ret == Outcome(cb, op, cur, r.list)
    IN  /\ items'   = r.list
        /\ stride'  = r.stride
        /\ index'   = Advance(index, r.stride, ret)
        /\ pc'      = IF Halts(ret) THEN "done" ELSE "loop"
        /\ result'  = IF Halts(ret) THEN ret ELSE result
        /\ calls'   = Append(calls, [op |-> op, at |-> index, item |-> cur])
        /\ UNCHANGED <<fn, cb, orig>>

\* Mutant: the last position left out.
LoopCond_OffByOne(i, l) == i + 1 < ListLen(l)

\* `while index < items.len()`: the length is asked of the list each time.
LoopCond(i, l) == i < ListLen(l)

\* The loop condition holds and the closure, called with the current item,
\* chooses a call with structural method act.
Chosen(act) ==
    IF pc = "loop" /\ LoopCond(index, items)
    THEN {op \in Callback(fn, cb, SlotGet(items, index).v) : op.act = act}
    ELSE {}

NoEdit       == \E op \in Chosen("none") : op.w = 0 /\ Iteration(op)
Write        == \E op \in Chosen("none") : op.w # 0 /\ Iteration(op)
InsertBefore == \E op \in Chosen("insert_before") : Iteration(op)
InsertAfter  == \E op \in Chosen("insert_after")  : Iteration(op)
Replace      == \E op \in Chosen("replace")       : Iteration(op)
ReplaceWith  == \E op \in Chosen("replace_with")  : Iteration(op)
Remove       == \E op \in Chosen("remove")        : Iteration(op)

\* Mutant: try_edit returns an error after the loop.
ReturnValue_Err(f) == IF f = "edit" THEN "unit" ELSE "Oops"

\* What is returned after the loop: () by edit, Ok(()) by try_edit.
ReturnValue(f) == IF f = "edit" THEN "unit" ELSE "ok"

\* The loop condition fails: edit returns (), try_edit returns Ok(()).
Return ==
    /\ pc = "loop"
    /\ ~LoopCond(index, items)
    /\ pc' = "done"
    /\ result' = ReturnValue(fn)
    /\ UNCHANGED <<fn, cb, orig, items, index, stride, calls>>

Tagged(s) == [j \in 1..Len(s) |-> [v |-> s[j], id |-> j]]

Init ==
    /\ fn \in {"edit", "try_edit"}
    /\ cb \in Closures
    /\ cb.e # "ok" => fn = "try_edit"
    /\ orig \in InitSeqs
    /\ cb.kind = "any" => orig \in {SubSeq(DocList, 1, n) : n \in 0..MaxLen}
    /\ items = Tagged(orig)
    /\ index = 0
    /\ stride = StrideNew
    /\ pc = "loop"
    /\ result = "running"
    /\ calls = <<>>

Next ==
    \/ NoEdit
    \/ Write
    \/ InsertBefore
    \/ InsertAfter
    \/ Replace
    \/ ReplaceWith
    \/ Remove
    \/ Return

Spec == Init /\ [][Next]_vars

\* edit and try_edit are one synchronous call: an iteration that can be taken
\* is taken.
FairSpec == Spec /\ WF_vars(Next)

TypeOK ==
    /\ pc \in {"loop", "done"}
    /\ index \in Nat
    /\ stride \in Nat

\* =================================================================== claims
\* Properties of a finished walk and of the history are state predicates;
\* properties of one iteration compare the list before and after it and are
\* action formulas.
Called == calls # <<>>

LastCall == calls[Len(calls)]

Completed == pc = "done" /\ result \in {"unit", "ok"}

\* The iteration just taken called the closure, which chose method act.
Took(act) == calls' # calls /\ calls'[Len(calls')].op.act = act

\* After the iteration just taken the walk stands on the item that followed
\* the current item before it, or at the end of the list if there was none.
AtSuccessor ==
    IF index + 1 < Len(items)
    THEN index' < Len(items') /\ items'[index' + 1] = items[index + 2]
    ELSE index' = Len(items')

\* ------------------------------------------------------------------ C1
\* C1: edit with a closure that removes exactly the items satisfying P
\* leaves exactly the items of the original list for which P is false, in
\* their original order; the final length is the number of such items.
C1_RemoveWhereKeepsTheRest ==
    (cb.kind = "removeWhere" /\ pc = "done") =>
        /\ items = SelectSeq(Tagged(orig), LAMBDA it : it.v \notin cb.P)
        /\ Len(items) = Cardinality({j \in 1..Len(orig) : orig[j] \notin cb.P})

\* Removal of the first item, of a run of adjacent items and of the last item.
C1_Witness ==
    /\ cb.kind = "removeWhere" /\ cb.P = {1, 2, 5} /\ fn = "edit"
    /\ orig = DocList /\ pc = "done" /\ ValuesOf(items) = <<3, 4>>

\* ------------------------------------------------------------------ C2
\* C2: whatever the closure does, the j-th call of the closure receives the
\* j-th item of the original list (so no item created during the walk is
\* ever passed and no original item is passed twice), and a walk that runs to
\* its end has passed every original item.
C2_EachOriginalOnce ==
    /\ \A j \in 1..Len(calls) : calls[j].item.id = j
    /\ Completed => Len(calls) = Len(orig)

\* A finished edit in which items were inserted and an item was removed.
C2_Witness ==
    /\ fn = "edit" /\ cb.kind = "any" /\ pc = "done" /\ Len(orig) = 3
    /\ \E j \in 1..3 : calls[j].op.act = "remove"
    /\ \E j \in 1..3 : calls[j].op.act = "insert_before" /\ Len(calls[j].op.its) = 2
    /\ \E j \in 1..3 : calls[j].op.act \in {"insert_after", "replace"}
                          /\ Len(calls[j].op.its) = 2

\* ------------------------------------------------------------------ C3
\* C3: the stride read after a call is n + 1 for insert_before / insert_after
\* with n items, n for replace with n items, 0 for remove and 1 when the
\* closure made no structural edit, and the index advanced by that stride.
C3_Expected(op) ==
    CASE op.act \in {"insert_before", "insert_after"} -> Len(op.its) + 1
      [] op.act = "replace" -> Len(op.its)
      [] op.act = "replace_with" -> op.b
      [] op.act = "remove" -> 0
      [] op.act = "none" -> 1

C3_StrideOfEdit ==
    (Called /\ LastCall.op.ret = "ok") =>
        /\ stride = C3_Expected(LastCall.op)
        /\ index = LastCall.at + stride

C3_Witness ==
    /\ Called /\ LastCall.op.act = "insert_after" /\ Len(LastCall.op.its) = 2
    /\ stride = 3 /\ index = LastCall.at + 3
    /\ \E j \in 1..Len(calls) : calls[j].op.act = "remove"

\* ------------------------------------------------------------------ C4
\* C4: try_edit with the closure `if item == k { Err(e) } else { remove }`
\* returns Err(e) and leaves the original list from its first k on when the
\* list contains k; it returns Ok(()) and leaves nothing when it does not.
C4_FirstAt(k) == CHOOSE j \in 1..Len(orig) :
                     orig[j] = k /\ \A m \in 1..(j - 1) : orig[m] # k

C4_HaltsAtFirstFailure ==
    (cb.kind = "failAt" /\ pc = "done") =>
        IF \E j \in 1..Len(orig) : orig[j] = cb.x
        THEN /\ result = cb.e
             /\ items = SubSeq(Tagged(orig), C4_FirstAt(cb.x), Len(orig))
        ELSE /\ result = "ok"
             /\ items = <<>>

C4_Witness ==
    /\ cb.kind = "failAt" /\ cb.x = 4 /\ cb.e = "Whoops!" /\ orig = DocList
    /\ pc = "done" /\ result = "Whoops!" /\ ValuesOf(items) = <<4, 5>>

\* ------------------------------------------------------------------ C5
\* C5: try_edit returns the error of the first call of the closure that
\* failed, Ok(()) when no call failed, and no call follows a failed call.
C5_Failed == {j \in 1..Len(calls) : calls[j].op.ret # "ok"}

C5_FirstErrorPropagated ==
    /\ \A j \in C5_Failed : j = Len(calls)
    /\ (fn = "try_edit" /\ pc = "done") =>
          IF C5_Failed = {} THEN result = "ok"
          ELSE \E j \in C5_Failed : /\ \A m \in C5_Failed : j <= m
                                    /\ result = calls[j].op.ret
    /\ (fn = "try_edit" /\ pc = "loop") => C5_Failed = {}

\* The second of three items fails after an edit; the third is never passed.
C5_Witness ==
    /\ fn = "try_edit" /\ cb.kind = "any" /\ Len(orig) = 3 /\ pc = "done"
    /\ Len(calls) = 2 /\ result = "Oops" /\ calls[2].op.ret = "Oops"
    /\ calls[1].op.act = "insert_after"

\* ------------------------------------------------------------------ C6
\* C6: as long as no call of the closure has edited or written, the list is
\* the original list and the j-th call was made at position j - 1; when such
\* a walk ends the closure has been called once for each of the len(S)
\* positions.
C6_NoEditSoFar == \A j \in 1..Len(calls) : calls[j].op = NoEditOp

C6_NoOpWalk ==
    C6_NoEditSoFar =>
        /\ items = Tagged(orig)
        /\ \A j \in 1..Len(calls) : calls[j].at = j - 1 /\ calls[j].item.v = orig[j]
        /\ pc = "done" => Len(calls) = Len(orig)

C6_Witness ==
    /\ fn = "edit" /\ cb.kind = "any" /\ orig = <<1, 2, 3>> /\ pc = "done"
    /\ Len(calls) = 3 /\ C6_NoEditSoFar /\ ValuesOf(items) = <<1, 2, 3>>

\* ------------------------------------------------------------------ C7
\* The current item as the structural method finds it: as written by the
\* closure if it wrote, as it was in the list otherwise.
CurrentFor(op) ==
    IF op.w # 0 THEN [v |-> op.w, id |-> items[index + 1].id] ELSE items[index + 1]

C7_Step ==
    Took("insert_before") =>
        LET op == calls'[Len(calls')].op
            n  == Len(op.its)
        IN  /\ items' = SubSeq(items, 1, index) \o New(op.its) \o <<CurrentFor(op)>>
                           \o SubSeq(items, index + 2, Len(items))
            /\ op.ret = "ok" => index' = index + n + 1 /\ AtSuccessor

C7_Doc(x, after) ==
    (/\ cb.kind = "single" /\ cb.act = "insert_before" /\ cb.w = 0
     /\ cb.A = <<6, 7, 8>> /\ cb.x = x /\ orig = DocList /\ pc = "done")
        => ValuesOf(items) = after

\* C7: insert_before(items) puts the items, in their order, immediately
\* before the current item, keeps the current item and every other item, and
\* the walk goes on at the item that followed the current item; with the
\* lists of the tests for the first, an interior and the last item.
C7_InsertBefore ==
    /\ [][C7_Step]_vars
    /\ [](/\ C7_Doc(1, <<6, 7, 8, 1, 2, 3, 4, 5>>)
          /\ C7_Doc(3, <<1, 2, 6, 7, 8, 3, 4, 5>>)
          /\ C7_Doc(5, <<1, 2, 3, 4, 6, 7, 8, 5>>))

C7_Witness ==
    /\ cb.kind = "single" /\ cb.act = "insert_before" /\ cb.w = 0
    /\ cb.A = <<6, 7, 8>> /\ cb.x = 3 /\ orig = DocList /\ pc = "done"
    /\ ValuesOf(items) = <<1, 2, 6, 7, 8, 3, 4, 5>>
    /\ Len(calls) = 5 /\ calls[3].op.act = "insert_before" /\ calls[4].item.v = 4

\* ------------------------------------------------------------------ C8
C8_Step ==
    Took("insert_after") =>
        LET op == calls'[Len(calls')].op
            n  == Len(op.its)
        IN  /\ items' = SubSeq(items, 1, index) \o <<CurrentFor(op)>> \o New(op.its)
                           \o SubSeq(items, index + 2, Len(items))
            /\ op.ret = "ok" => index' = index + n + 1 /\ AtSuccessor

C8_Doc(x, after) ==
    (/\ cb.kind = "single" /\ cb.act = "insert_after" /\ cb.w = 0
     /\ cb.A = <<6, 7, 8>> /\ cb.x = x /\ orig = DocList /\ pc = "done")
        => ValuesOf(items) = after

\* C8: insert_after(items) puts the items, in their order, immediately after
\* the current item, which keeps its index; every other item is kept, and the
\* walk goes on at the item that followed the current item, past the new
\* items; with the lists of the tests.
C8_InsertAfter ==
    /\ [][C8_Step]_vars
    /\ [](/\ C8_Doc(1, <<1, 6, 7, 8, 2, 3, 4, 5>>)
          /\ C8_Doc(3, <<1, 2, 3, 6, 7, 8, 4, 5>>)
          /\ C8_Doc(5, <<1, 2, 3, 4, 5, 6, 7, 8>>))

C8_Witness ==
    /\ cb.kind = "single" /\ cb.act = "insert_after" /\ cb.w = 0
    /\ cb.A = <<6, 7, 8>> /\ cb.x = 3 /\ orig = DocList /\ pc = "done"
    /\ ValuesOf(items) = <<1, 2, 3, 6, 7, 8, 4, 5>>
    /\ Len(calls) = 5 /\ calls[3].op.act = "insert_after" /\ calls[4].item.v = 4

\* ------------------------------------------------------------------ C9
C9_Doc(A, B, after) ==
    (/\ cb.kind = "insertPair" /\ cb.x = 2 /\ cb.y = 3 /\ cb.A = A /\ cb.B = B
     /\ orig = DocList /\ pc = "done")
        => ValuesOf(items) = after

\* C9: with the closure `if item == x { insert_after(A) } else if item == y
\* { insert_before(B) }`, wherever y directly followed x in the original
\* list the final list holds x, A, B, y next to each other in that order,
\* and y is passed to the closure exactly once; with the two lists of the
\* documentation.
C9_AdjacentInserts ==
    /\ cb.kind = "insertPair" =>
          \A j \in 1..(Len(orig) - 1) :
              (orig[j] = cb.x /\ orig[j + 1] = cb.y) =>
                  /\ Cardinality({m \in 1..Len(calls) : calls[m].item.id = j + 1}) <= 1
                  /\ pc = "done" =>
                       /\ Cardinality({m \in 1..Len(calls) : calls[m].item.id = j + 1}) = 1
                       /\ \E p \in 1..Len(items) :
                            /\ p + Len(cb.A) + Len(cb.B) + 1 <= Len(items)
                            /\ SubSeq(items, p, p + Len(cb.A) + Len(cb.B) + 1) =
                                 <<[v |-> cb.x, id |-> j]>> \o New(cb.A) \o New(cb.B)
                                    \o <<[v |-> cb.y, id |-> j + 1]>>
    /\ C9_Doc(<<6>>, <<7>>, <<1, 2, 6, 7, 3, 4, 5>>)
    /\ C9_Doc(<<6, 7>>, <<8, 9>>, <<1, 2, 6, 7, 8, 9, 3, 4, 5>>)

C9_Witness ==
    /\ cb.kind = "insertPair" /\ cb.x = 2 /\ cb.y = 3 /\ cb.A = <<6, 7>>
    /\ cb.B = <<8, 9>> /\ orig = DocList /\ pc = "done"
    /\ ValuesOf(items) = <<1, 2, 6, 7, 8, 9, 3, 4, 5>>
    /\ calls[2].op.act = "insert_after" /\ calls[3].op.act = "insert_before"

\* ------------------------------------------------------------------ C10
C10_Step ==
    (Took("replace") /\ calls'[Len(calls')].op.its # <<>>) =>
        LET op == calls'[Len(calls')].op
            n  == Len(op.its)
        IN  /\ items' = SubSeq(items, 1, index) \o New(op.its)
                           \o SubSeq(items, index + 2, Len(items))
            /\ op.ret = "ok" => index' = index + n /\ AtSuccessor

\* C10: replace(items) with n >= 1 items puts the n items, in their order, in
\* the place of the current item and keeps every other item; the walk goes on
\* at the item that followed the current item, so no item created by a
\* replace is passed to the closure; on [1,2,3,4,5], writing 6 over 2 and
\* then replacing 3 with [7,8,9] gives [1,6,7,8,9,4,5].
C10_MultiReplace ==
    /\ [][C10_Step]_vars
    /\ [](\A j \in 1..Len(calls) : calls[j].item.id # 0)
    /\ []((/\ cb.kind = "writeReplace" /\ cb.x = 2 /\ cb.y = 3
           /\ cb.A = <<7, 8, 9>> /\ orig = DocList /\ pc = "done")
             => ValuesOf(items) = <<1, 6, 7, 8, 9, 4, 5>>)

C10_Witness ==
    /\ cb.kind = "writeReplace" /\ cb.x = 2 /\ cb.y = 3 /\ cb.A = <<7, 8, 9>>
    /\ orig = DocList /\ pc = "done" /\ ValuesOf(items) = <<1, 6, 7, 8, 9, 4, 5>>
    /\ calls[2].op.w = 6 /\ calls[3].op.act = "replace" /\ calls[4].item.v = 4

\* ------------------------------------------------------------------ C11
\* The items of the original list whose value is not x, and the position at
\* which the j-th of the original items is met when exactly those of value x
\* are deleted.
C11_Without(x) == SelectSeq(Tagged(orig), LAMBDA it : it.v # x)

C11_KeptBefore(x, j) == Cardinality({m \in 1..(j - 1) : orig[m] # x})

C11_Step ==
    LET op  == calls'[Len(calls')].op
        cut == SubSeq(items, 1, index) \o SubSeq(items, index + 2, Len(items))
    IN  /\ (Took("replace") /\ op.its = <<>>) =>
              /\ items' = cut /\ stride' = 0
              /\ items' = SlotRemove(items, index).list
              /\ stride' = SlotRemove(items, index).stride
        /\ Took("remove") =>
              /\ items' = cut /\ stride' = 0
              /\ items' = SlotReplace(items, index, <<>>).list
              /\ stride' = SlotReplace(items, index, <<>>).stride

\* The closure deletes the items of value x, by replace([]) or by remove().
C11_Deletes(x) ==
    \/ cb.kind = "single" /\ cb.act = "replace" /\ cb.A = <<>> /\ cb.x = x
    \/ cb.kind = "removeWhere" /\ cb.P = {x}

\* C11: replace([]) and remove() are equivalent: at the same position of the
\* same list each leaves the list without the current item and the stride 0,
\* which is what the other would leave; a walk that deletes the items of
\* value x makes the same calls at the same positions and ends with the same
\* list whichever of the two it uses ([1,2,4,5] for x = 3 in [1,2,3,4,5]).
C11_EmptyReplaceIsRemove ==
    /\ [][C11_Step]_vars
    /\ [](\A x \in Vals : C11_Deletes(x) =>
            /\ \A j \in 1..Len(calls) : calls[j].at = C11_KeptBefore(x, j)
            /\ pc = "done" => items = C11_Without(x) /\ Len(calls) = Len(orig))

C11_Witness ==
    /\ cb.kind = "single" /\ cb.act = "replace" /\ cb.A = <<>> /\ cb.x = 3
    /\ cb.w = 0 /\ orig = DocList /\ pc = "done"
    /\ ValuesOf(items) = <<1, 2, 4, 5>> /\ calls[4].at = 2 /\ stride = 1
    /\ calls[3].op.act = "replace"

\* ------------------------------------------------------------------ C12
\* C12: after remove() at position p the next call of the closure, if there
\* is one, is again at p and receives the item that followed the removed
\* item; nothing is skipped, and if the removed item was the last item the
\* walk is at its end.
C12_AfterRemove ==
    \A j \in 1..Len(calls) :
        (calls[j].op.act = "remove" /\ calls[j].op.ret = "ok") =>
            LET p    == calls[j].at
                next == calls[j].item.id + 1
            IN  /\ j < Len(calls) =>
                      /\ calls[j + 1].at = p
                      /\ calls[j + 1].item = [v |-> orig[next], id |-> next]
                /\ j = Len(calls) =>
                      /\ index = p
                      /\ IF next <= Len(orig)
                         THEN /\ index < Len(items)
                              /\ items[index + 1] = [v |-> orig[next], id |-> next]
                         ELSE index = Len(items)

C12_Witness ==
    /\ cb.kind = "any" /\ orig = <<1, 2, 3>> /\ pc = "done" /\ Len(calls) = 3
    /\ calls[1].op.act = "insert_before" /\ calls[2].op.act = "remove"
    /\ calls[2].at = 3 /\ calls[3].at = 3 /\ calls[3].item.v = 3
    /\ calls[3].op.act = "remove" /\ index = 3 /\ Len(items) = 3

\* ------------------------------------------------------------------ C13
CallsClosure == NoEdit \/ Write \/ InsertBefore \/ InsertAfter \/ Replace
                   \/ ReplaceWith \/ Remove

C13_Step ==
    /\ calls' # calls => index < Len(items)
    /\ (pc = "loop" /\ pc' = "done" /\ calls' = calls) => index >= Len(items)

\* C13: at the loop head the closure is called if and only if the index is
\* below the length the list has at that moment, and the walk returns if and
\* only if it is not; the length of the list at the start plays no part.
C13_FreshLength ==
    /\ [][C13_Step]_vars
    /\ [](pc = "loop" =>
            /\ (ENABLED CallsClosure) <=> index < Len(items)
            /\ (ENABLED Return) <=> index >= Len(items))

\* The list grew: the closure is called at a position beyond the length the
\* list had at the start, and the walk ends there.
C13_Witness ==
    /\ cb.kind = "any" /\ orig = <<1, 2, 3>> /\ pc = "done" /\ Len(calls) = 3
    /\ calls[3].at >= Len(orig) /\ index = Len(items) /\ index > Len(orig)

\* ------------------------------------------------------------------ C14
C14_Step ==
    Took("replace_with") =>
        LET op    == calls'[Len(calls')].op
            old   == items[index + 1]
            built == New(Build(op.b, old.v))
        IN  /\ calls'[Len(calls')].item = old
            /\ items' = SubSeq(items, 1, index) \o built
                           \o SubSeq(items, index + 2, Len(items))
            /\ items' = SlotReplace(items, index, built).list
            /\ stride' = SlotReplace(items, index, built).stride
            /\ stride' = op.b
            /\ op.ret = "ok" => index' = index + op.b /\ AtSuccessor

\* C14: replace_with(build) has the effect on the list and on the stride of
\* replace(build(item)), item being the current item as it is before the
\* replacement; replace_with(|i| [i+3, i+4, i+5]) at 3 in [1,2,3,4,5] gives
\* [1,2,6,7,8,4,5], and at every item it gives 15 items, three per original
\* item, each original item being passed to the closure once.
C14_ReplaceWith ==
    /\ [][C14_Step]_vars
    /\ []((/\ cb.kind = "replaceWith" /\ cb.y = 3 /\ orig = DocList /\ pc = "done")
            => /\ cb.P = {3} => ValuesOf(items) = <<1, 2, 6, 7, 8, 4, 5>>
               /\ cb.P = Vals =>
                    /\ Len(items) = 15
                    /\ \A j \in 1..5 : \A k \in 1..3 :
                          items[3 * (j - 1) + k] = [v |-> j + 2 + k, id |-> 0]
                    /\ Len(calls) = 5
                    /\ \A j \in 1..5 : calls[j].item = [v |-> j, id |-> j])

C14_Witness ==
    /\ cb.kind = "replaceWith" /\ cb.y = 3 /\ cb.P = Vals /\ orig = DocList
    /\ pc = "done" /\ Len(items) = 15 /\ Len(calls) = 5
    /\ calls[5].op.act = "replace_with" /\ calls[5].at = 12

\* ------------------------------------------------------------------ C16
\* The item lists the two implementations of List::replace are compared on.
C16_ItemLists == {New(NewItems(n)) : n \in 0..(MaxIns + 1)}

C16_Step ==
    /\ Took("replace") =>
          items' = TinyVecReplace(items, index, New(calls'[Len(calls')].op.its))
    /\ Took("replace_with") =>
          items' = TinyVecReplace(items, index,
                       New(Build(calls'[Len(calls')].op.b, items[index + 1].v)))

\* The two implementations agree on list l at index i for the items its.
C16_Same(l, i, its) ==
    LET r == ListReplace(l, i, its)
    IN  /\ r = TinyVecReplace(l, i, its)
        /\ Len(r) = Len(l) + Len(its) - 1
        /\ \A k \in 1..Len(its) : r[i + k] = its[k]

\* C16: the default List::replace (first item written in place at i, the
\* others inserted in order from i + 1; index i removed when there are no
\* items) gives the list the splice of i..i+1 of the TinyVec implementation
\* gives: for every list a walk starts from, at every valid index and for
\* every item list, and at every replace step of a walk.
C16_DefaultReplaceIsSplice ==
    /\ [][C16_Step]_vars
    /\ [](calls = <<>> =>
            \A i \in 0..(Len(items) - 1) : \A its \in C16_ItemLists :
                C16_Same(items, i, its))

C16_Witness ==
    /\ Called /\ LastCall.op.act = "replace" /\ Len(LastCall.op.its) = 3
    /\ LastCall.at = 1 /\ Len(items) = 5 /\ orig = <<1, 2, 3>>
    /\ ValuesOf(items) = <<1, 6, 7, 8, 3>>

\* ------------------------------------------------------------------ C17
\* C17: edit and try_edit always return: every walk reaches its end, after at
\* most as many calls of the closure as the list had items at the start,
\* whatever the closure inserts, replaces or removes.
C17_Terminates ==
    /\ <>(pc = "done")
    /\ [](Len(calls) <= Len(orig))

\* A finished walk in which every call inserted two items.
C17_Witness ==
    /\ cb.kind = "any" /\ orig = <<1, 2, 3>> /\ pc = "done" /\ Len(calls) = 3
    /\ \A j \in 1..3 : /\ calls[j].op.act \in {"insert_before", "insert_after"}
                       /\ Len(calls[j].op.its) = 2
    /\ calls[1].op.act = "insert_before" /\ calls[2].op.act = "insert_after"
    /\ Len(items) = 9

\* ------------------------------------------------------------------ C19
\* The list a call doing op at the current position leaves, written out.
C19_After(op) ==
    LET pre == SubSeq(items, 1, index)
        cur == CurrentFor(op)
        suf == SubSeq(items, index + 2, Len(items))
    IN  CASE op.act = "none"          -> pre \o <<cur>> \o suf
          [] op.act = "insert_before" -> pre \o New(op.its) \o <<cur>> \o suf
          [] op.act = "insert_after"  -> pre \o <<cur>> \o New(op.its) \o suf
          [] op.act = "replace"       -> pre \o New(op.its) \o suf
          [] op.act = "replace_with"  -> pre \o New(Build(op.b, cur.v)) \o suf
          [] op.act = "remove"        -> pre \o suf

C19_Step ==
    (calls' # calls /\ calls'[Len(calls')].op.ret # "ok") =>
        /\ items' = C19_After(calls'[Len(calls')].op)
        /\ index' = index
        /\ pc' = "done"
        /\ result' = calls'[Len(calls')].op.ret

\* C19: when the call that fails has edited the list before returning Err
\* (remove() then Err, for one), the edit stays in the list, try_edit returns
\* with the index still at the position of the failing call, and no later
\* position is visited.
C19_FailureKeepsEdit ==
    /\ [][C19_Step]_vars
    /\ []((pc = "done" /\ result \in Errs) =>
            /\ index = LastCall.at
            /\ LastCall.op.ret = result
            /\ \A j \in 1..Len(calls) : calls[j].at <= index)
    /\ [][pc = "done" => UNCHANGED <<items, index, calls, result>>]_vars

C19_Witness ==
    /\ fn = "try_edit" /\ cb.kind = "any" /\ orig = <<1, 2, 3>> /\ pc = "done"
    /\ result = "Oops" /\ Len(calls) = 2 /\ LastCall.op.act = "remove"
    /\ calls[1].op = NoEditOp /\ ValuesOf(items) = <<1, 3>> /\ index = 1

\* ------------------------------------------------------------------ C20
\* The calls that leave stride 0: remove, and replace with no items.
C20_Deletes(op) ==
    \/ op.act = "remove"
    \/ op.act = "replace" /\ op.its = <<>>
    \/ op.act = "replace_with" /\ op.b = 0

C20_Step ==
    /\ index' >= index
    /\ calls' = calls => index' = index
    /\ (calls' # calls /\ calls'[Len(calls')].op.ret = "ok") =>
          IF C20_Deletes(calls'[Len(calls')].op)
          THEN index' = index /\ stride' = 0
          ELSE index' > index /\ stride' > 0

\* C20: the index starts at 0 and never moves backwards; over an iteration
\* whose closure returns normally it stays equal exactly when the stride is 0
\* (remove, or replace with no items) and strictly increases otherwise.
C20_IndexMonotonic ==
    /\ [](calls = <<>> => index = 0)
    /\ [][C20_Step]_vars
    /\ [](\A j \in 1..Len(calls) : \A k \in j..Len(calls) : calls[j].at <= calls[k].at)

C20_Witness ==
    /\ fn = "edit" /\ cb.kind = "any" /\ orig = <<1, 2, 3>> /\ pc = "done"
    /\ calls[1].op.act = "remove" /\ calls[2].at = 0
    /\ calls[2].op.act = "insert_after" /\ Len(calls[2].op.its) = 2
    /\ calls[3].at = 3 /\ calls[3].op = NoEditOp /\ index = 4

\* ------------------------------------------------------------------ C21
C21_Step ==
    (Took("none") /\ calls'[Len(calls')].op.ret = "ok") =>
        /\ stride' = 1
        /\ index' = index + 1

\* C21: the stride of an iteration starts from 1 and owes nothing to the
\* iteration before it: a call that makes no structural edit leaves stride 1
\* and moves the index by exactly 1, also when the call before it removed
\* (stride 0) or inserted or replaced (stride k).
C21_FreshStride ==
    /\ [][C21_Step]_vars
    /\ [](\A j \in 1..Len(calls) :
            (calls[j].op.act = "none" /\ calls[j].op.ret = "ok") =>
                /\ j < Len(calls) => calls[j + 1].at = calls[j].at + 1
                /\ j = Len(calls) => index = calls[j].at + 1 /\ stride = 1)

\* A call without edit after a remove, and one after an insertion of two.
C21_Witness ==
    /\ cb.kind = "any" /\ orig = <<1, 2, 3>> /\ Len(calls) = 3
    /\ calls[1].op.act = "remove" /\ calls[2].op = NoEditOp /\ calls[2].at = 0
    /\ calls[3].at = 1 /\ calls[3].op.act = "insert_before"
    /\ Len(calls[3].op.its) = 2 /\ index = 4 /\ stride = 3

\* ------------------------------------------------------------------ C22
\* By how much each structural method changes the length of the list.
C22_Delta(op) ==
    CASE op.act = "remove" -> 0 - 1
      [] op.act = "none" -> 0
      [] op.act \in {"insert_before", "insert_after"} -> Len(op.its)
      [] op.act = "replace" -> Len(op.its) - 1
      [] op.act = "replace_with" -> op.b - 1

C22_Step ==
    calls' # calls =>
        /\ Len(items') = Len(items) + stride' - 1
        /\ Len(items') - Len(items) = C22_Delta(calls'[Len(calls')].op)

\* C22: after every call of the closure the length of the list has changed
\* by exactly stride - 1: by -1 for remove, 0 for no edit and for a replace
\* with one item, +n for an insert of n items, n - 1 for a replace with n.
C22_StrideIsSlots ==
    [][C22_Step]_vars

C22_Witness ==
    /\ cb.kind = "any" /\ orig = <<1, 2, 3>> /\ Len(calls) = 3 /\ pc = "done"
    /\ calls[1].op.act = "remove" /\ calls[2].op.act = "insert_after"
    /\ Len(calls[2].op.its) = 2 /\ calls[3].op.act = "replace"
    /\ Len(calls[3].op.its) = 2 /\ stride = 2 /\ Len(items) = 5

\* ------------------------------------------------------------------ C23
C23_Step ==
    calls' # calls =>
        LET op == calls'[Len(calls')].op
        IN  /\ 0 <= index /\ index < Len(items)
            /\ calls'[Len(calls')].item # PanicItem
            /\ items' # Panic
            /\ op.act = "insert_before" => index <= Len(items)
            /\ op.act \in {"insert_after", "replace", "replace_with"} =>
                  index + 1 <= Len(items)

\* C23: no call made during a walk panics: the item is read, written and
\* removed at an index below the length of the list, insert_before inserts
\* at an index not above it, and insert_after and the default replace insert
\* at index + 1, which is the length at most (the length itself on the last
\* item).
C23_NoIndexOutOfBounds ==
    /\ [][C23_Step]_vars
    /\ [](result # "panic" /\ items # Panic)

\* insert_after of two items on the only, and so the last, item of a list.
C23_Witness ==
    /\ cb.kind = "any" /\ Len(orig) = 1 /\ pc = "done" /\ Len(calls) = 1
    /\ result = "unit" /\ calls[1].at = 0 /\ calls[1].op.act = "insert_after"
    /\ Len(calls[1].op.its) = 2 /\ Len(items) = 3 /\ index = 3
    /\ items[1].id = 1

\* ------------------------------------------------------------------ C24
C24_Step ==
    LET op == calls'[Len(calls')].op
    IN  /\ calls' # calls => calls'[Len(calls')].item = items[index + 1]
        /\ (Took("none") /\ op.w = 0) => items' = items /\ stride' = 1
        /\ (Took("none") /\ op.w # 0) =>
              /\ Len(items') = Len(items)
              /\ items'[index + 1].v = op.w
              /\ \A k \in 1..Len(items) : k # index + 1 => items'[k] = items[k]
              /\ stride' = 1

C24_Doc(x, after) ==
    (cb.kind = "write" /\ cb.x = x /\ orig = DocList /\ pc = "done")
        => ValuesOf(items) = after

\* C24: `*item = w` changes the item at the current index to w and nothing
\* else: the length, every other item and the stride (1) are as before, and
\* the written value is in the list when the walk has ended ([6,2,3,4,5],
\* [1,2,6,4,5] and [1,2,3,4,6] in the tests); reading the item yields the
\* item at the current index and changes nothing.
C24_WriteInPlace ==
    /\ [][C24_Step]_vars
    /\ []((cb.kind = "write" /\ pc = "done") =>
            /\ Len(items) = Len(orig)
            /\ \A j \in 1..Len(orig) :
                  items[j].v = IF orig[j] = cb.x THEN cb.w ELSE orig[j])
    /\ [](/\ C24_Doc(1, <<6, 2, 3, 4, 5>>)
          /\ C24_Doc(3, <<1, 2, 6, 4, 5>>)
          /\ C24_Doc(5, <<1, 2, 3, 4, 6>>))

C24_Witness ==
    /\ cb.kind = "write" /\ cb.x = 3 /\ orig = DocList /\ pc = "done"
    /\ ValuesOf(items) = <<1, 2, 6, 4, 5>> /\ Len(calls) = 5
    /\ calls[3].op.w = 6 /\ calls[3].item.v = 3 /\ calls[4].at = 3

\* ------------------------------------------------------------------ C25
C25_Step ==
    LET op == calls'[Len(calls')].op
    IN  ((Took("insert_before") \/ Took("insert_after")) /\ op.its = <<>>) =>
            /\ items' = IF op.w # 0 THEN SlotWrite(items, index, op.w) ELSE items
            /\ items' = SlotCall([op EXCEPT !.act = "none"], items', index).list
            /\ stride' = 1
            /\ stride' = SlotCall([op EXCEPT !.act = "none"], items', index).stride
            /\ op.ret = "ok" => index' = index + 1

\* The closure calls insert_before([]) or insert_after([]) at the items of
\* value cb.x and does nothing else.
C25_EmptyInsert ==
    /\ cb.kind = "single" /\ cb.act \in {"insert_before", "insert_after"}
    /\ cb.A = <<>> /\ cb.w = 0

\* C25: insert_before and insert_after with no items leave the list as it is
\* and the stride at 1, which is what a call without structural edit leaves;
\* a walk whose only edits are empty inserts visits the positions 0, 1, 2,
\* ... once each and ends with the original list.
C25_EmptyInsertIsNoEdit ==
    /\ [][C25_Step]_vars
    /\ [](C25_EmptyInsert =>
            /\ items = Tagged(orig)
            /\ \A j \in 1..Len(calls) : calls[j].at = j - 1 /\ calls[j].item.id = j
            /\ pc = "done" => Len(calls) = Len(orig))

C25_Witness ==
    /\ C25_EmptyInsert /\ cb.act = "insert_after" /\ cb.x = 3 /\ orig = DocList
    /\ pc = "done" /\ ValuesOf(items) = DocList /\ Len(calls) = 5
    /\ calls[3].op.act = "insert_after" /\ calls[3].op.its = <<>> /\ calls[4].at = 3

\* ------------------------------------------------------------------ C26
\* Every call so far deleted its item and returned normally.
C26_AllDeleted ==
    \A j \in 1..Len(calls) : C20_Deletes(calls[j].op) /\ calls[j].op.ret = "ok"

C26_Success == result = IF fn = "edit" THEN "unit" ELSE "ok"

\* C26: on an empty list the closure is never called, the list stays empty
\* and the walk returns, try_edit with Ok(()); a walk in which every call
\* removed its item (by remove or by a replace with no items) ends with the
\* empty list, after one call per original item, try_edit with Ok(()).
C26_EmptyIsSuccess ==
    /\ orig = <<>> =>
          /\ calls = <<>> /\ items = <<>> /\ index = 0
          /\ pc = "loop" => (ENABLED Return) /\ ~(ENABLED CallsClosure)
          /\ pc = "done" => C26_Success
    /\ (pc = "done" /\ C26_AllDeleted) =>
          /\ items = <<>> /\ Len(calls) = Len(orig) /\ C26_Success

C26_Witness ==
    /\ fn = "try_edit" /\ cb.kind = "any" /\ orig = <<1, 2, 3>> /\ pc = "done"
    /\ items = <<>> /\ result = "ok" /\ Len(calls) = 3 /\ index = 0
    /\ calls[1].op.act = "remove" /\ calls[2].op.act = "replace"
    /\ calls[3].op.act = "replace_with"

\* ------------------------------------------------------------------ C27
C27_Step ==
    LET op == calls'[Len(calls')].op
    IN  /\ calls' # calls =>
              (index = Len(items) - 1 <=> items[index + 1].id = Len(orig))
        /\ (Took("insert_after") /\ index = Len(items) - 1) =>
              /\ items' = SubSeq(items, 1, index) \o <<CurrentFor(op)>> \o New(op.its)
              /\ op.ret = "ok" => index' = Len(items')
        /\ (Took("replace") /\ op.its # <<>> /\ index = Len(items) - 1) =>
              /\ items' = SubSeq(items, 1, index) \o New(op.its)
              /\ op.ret = "ok" => index' = Len(items')

C27_Doc(act, after) ==
    (/\ cb.kind = "single" /\ cb.act = act /\ cb.w = 0 /\ cb.A = <<6, 7, 8>>
     /\ cb.x = 5 /\ orig = DocList /\ pc = "done")
        => /\ ValuesOf(items) = after
           /\ Len(calls) = 5 /\ calls[5].item.v = 5

\* C27: insert_after on the last item of the list inserts at the index that
\* is the length of the list, so the items become its tail after the current
\* item, and replace with several items on the last item makes them its
\* tail; the call on the last item is the last call of the walk, which
\* stands at the end of the list after it ([1,2,3,4,5,6,7,8] and
\* [1,2,3,4,6,7,8] in the tests).
C27_LastItem ==
    /\ [][C27_Step]_vars
    /\ [](\A j \in 1..Len(calls) :
            (calls[j].item.id = Len(orig)
               /\ calls[j].op.act \in {"insert_after", "replace"}) =>
                /\ j = Len(calls)
                /\ calls[j].op.ret = "ok" => index = Len(items))
    /\ [](/\ C27_Doc("insert_after", <<1, 2, 3, 4, 5, 6, 7, 8>>)
          /\ C27_Doc("replace", <<1, 2, 3, 4, 6, 7, 8>>))

C27_Witness ==
    /\ cb.kind = "single" /\ cb.act = "insert_after" /\ cb.w = 0
    /\ cb.A = <<6, 7, 8>> /\ cb.x = 5 /\ orig = DocList /\ pc = "done"
    /\ ValuesOf(items) = <<1, 2, 3, 4, 5, 6, 7, 8>> /\ Len(calls) = 5
    /\ calls[5].at = 4 /\ calls[5].op.act = "insert_after" /\ index = 8

\* ------------------------------------------------------------------ C28
\* C28: at the loop head the index is never above the length of the list,
\* and when the walk has ended without failure it is exactly the length.
C28_NoOvershoot ==
    /\ pc = "loop" => index <= Len(items)
    /\ Completed => index = Len(items)

\* The list grew and shrank during the walk.
C28_Witness ==
    /\ cb.kind = "any" /\ orig = <<1, 2, 3>> /\ Completed /\ Len(calls) = 3
    /\ calls[1].op.act = "insert_after" /\ Len(calls[1].op.its) = 2
    /\ calls[2].op.act = "replace" /\ calls[2].op.its = <<>>
    /\ calls[3].op.act = "remove" /\ index = 3 /\ Len(items) = 3

\* ------------------------------------------------------------------ C29
C29_Step ==
    (calls' # calls /\ calls'[Len(calls')].op.ret = "ok") =>
        Len(items') - index' = (Len(items) - index) - 1

\* C29: over every iteration whose closure returns normally the number of
\* items from the index to the end of the list goes down by exactly 1,
\* whatever the closure did; so it is the number of original items not yet
\* passed, edit calls the closure exactly once per original item and
\* try_edit at most that often.
C29_RemainingDecreases ==
    /\ [][C29_Step]_vars
    /\ [](/\ (\A j \in 1..Len(calls) : calls[j].op.ret = "ok") =>
                Len(items) - index = Len(orig) - Len(calls)
          /\ Len(calls) <= Len(orig)
          /\ (fn = "edit" /\ pc = "done") => Len(calls) = Len(orig)
          /\ (fn = "try_edit" /\ pc = "done" /\ result = "ok") =>
                Len(calls) = Len(orig))

C29_Witness ==
    /\ fn = "edit" /\ cb.kind = "any" /\ orig = <<1, 2, 3>> /\ pc = "done"
    /\ Len(calls) = 3 /\ calls[1].op.act = "replace" /\ Len(calls[1].op.its) = 2
    /\ calls[2].op.act = "remove" /\ calls[3].op.act = "insert_before"
    /\ Len(calls[3].op.its) = 1 /\ index = 4 /\ Len(items) = 4

\* ------------------------------------------------------------------ C30
\* The segment the call c leaves in the place of the item it was given.
C30_Segment(c) ==
    LET x == IF c.op.w # 0 THEN [v |-> c.op.w, id |-> c.item.id] ELSE c.item
    IN  CASE c.op.act = "none"          -> <<x>>
          [] c.op.act = "insert_before" -> New(c.op.its) \o <<x>>
          [] c.op.act = "insert_after"  -> <<x>> \o New(c.op.its)
          [] c.op.act = "replace"       -> New(c.op.its)
          [] c.op.act = "replace_with"  -> New(Build(c.op.b, x.v))
          [] c.op.act = "remove"        -> <<>>

\* The segments of the first n calls, one after the other.
RECURSIVE C30_FlatMap(_)
C30_FlatMap(n) ==
    IF n = 0 THEN <<>> ELSE C30_FlatMap(n - 1) \o C30_Segment(calls[n])

\* C30: the list is a flat-map of the original list: the j-th call is given
\* the j-th original item, and at every moment the list is the segments of
\* the calls made so far, in order, followed by the original items not yet
\* passed; each segment depends on its own call alone.  When edit returns
\* the list is the concatenation of one segment per original item.
C30_FlatMapOfOriginal ==
    /\ \A j \in 1..Len(calls) : calls[j].item = Tagged(orig)[j]
    /\ items = C30_FlatMap(Len(calls))
                  \o SubSeq(Tagged(orig), Len(calls) + 1, Len(orig))
    /\ Completed => items = C30_FlatMap(Len(orig))

C30_Witness ==
    /\ fn = "edit" /\ cb.kind = "any" /\ orig = <<1, 2, 3>> /\ pc = "done"
    /\ Len(calls) = 3 /\ calls[1].op.act = "insert_before"
    /\ calls[2].op.act = "replace" /\ calls[3].op.act = "insert_after"
    /\ ValuesOf(items) = <<6, 7, 1, 6, 7, 3, 6, 7>>

\* ------------------------------------------------------------------ C31
C31_Step ==
    calls' # calls =>
        LET after == Len(items) - (index + 1)
        IN  /\ Len(items') >= index + after
            /\ SubSeq(items', 1, index) = SubSeq(items, 1, index)
            /\ SubSeq(items', Len(items') - after + 1, Len(items'))
                 = SubSeq(items, index + 2, Len(items))

\* C31: a call at position p leaves the items at the positions below p as
\* they are, in values and order, and leaves the items after the current
\* item as they are, in values and order, at the end of the list: they are
\* shifted at most.
C31_FrameOfStep ==
    [][C31_Step]_vars

\* A replace by two items in the middle of a list whose first item was
\* written before: the written prefix and the suffix are kept.
C31_Witness ==
    /\ cb.kind = "any" /\ orig = <<1, 2, 3>> /\ Len(calls) = 2
    /\ calls[1].op.w = 6 /\ calls[2].at = 1 /\ calls[2].op.act = "replace"
    /\ Len(calls[2].op.its) = 2 /\ ValuesOf(items) = <<6, 6, 7, 3>>

\* ------------------------------------------------------------------ C32
\* C32: the items the closure is given are items of the original list, in
\* the order they had in it, each with the value it had when the walk
\* started, whatever the earlier calls wrote, inserted, replaced or removed;
\* and the item the next call will be given is again the next original item.
C32_OriginalOrderAndValue ==
    /\ \A j \in 1..Len(calls) :
          /\ calls[j].item.id \in 1..Len(orig)
          /\ calls[j].item.v = orig[calls[j].item.id]
          /\ \A k \in 1..(j - 1) : calls[k].item.id < calls[j].item.id
    /\ (pc = "loop" /\ index < Len(items)) =>
          /\ Len(calls) < Len(orig)
          /\ items[index + 1] = [v |-> orig[Len(calls) + 1], id |-> Len(calls) + 1]

\* The third item is read with its original value after a write and an
\* insertion at the items before it.
C32_Witness ==
    /\ cb.kind = "any" /\ orig = <<1, 2, 3>> /\ Len(calls) = 3
    /\ calls[1].op.w = 6 /\ calls[2].op.act = "insert_before"
    /\ Len(calls[2].op.its) = 2 /\ calls[3].at = 4
    /\ calls[3].item = [v |-> 3, id |-> 3] /\ calls[3].op.act = "remove"

\* ------------------------------------------------------------------ C33
C33_Step ==
    (Took("replace") /\ Len(calls'[Len(calls')].op.its) = 1) =>
        LET y == calls'[Len(calls')].op.its[1]
        IN  /\ ValuesOf(items') = ValuesOf(SlotWrite(items, index, y))
            /\ Len(items') = Len(items)
            /\ \A k \in 1..Len(items) : k # index + 1 => items'[k] = items[k]
            /\ items'[index + 1].v = y
            /\ stride' = 1
            /\ stride' = SlotCall(NoEditOp, SlotWrite(items, index, y), index).stride

\* What is left of the original list when 6 is put in the place of every x.
C33_Expected(x) == [j \in 1..Len(orig) |-> IF orig[j] = x THEN 6 ELSE orig[j]]

\* C33: replace with the one item y leaves the values an in-place write of y
\* leaves: the length is unchanged, only the current item changed, and the
\* stride is 1.  The walk `if item == x { item.replace([6]) }` and the walk
\* `if item == x { *item = 6 }` make their calls at the same positions and
\* end with the same values.
C33_ReplaceOneIsWrite ==
    /\ [][C33_Step]_vars
    /\ [](\A x \in Vals :
            (\/ cb.kind = "single" /\ cb.act = "replace" /\ cb.A = <<6>>
                  /\ cb.w = 0 /\ cb.x = x
             \/ cb.kind = "write" /\ cb.x = x) =>
                /\ \A j \in 1..Len(calls) : calls[j].at = j - 1
                /\ pc = "done" => ValuesOf(items) = C33_Expected(x))

C33_Witness ==
    /\ cb.kind = "single" /\ cb.act = "replace" /\ cb.A = <<6>> /\ cb.w = 0
    /\ cb.x = 3 /\ orig = DocList /\ pc = "done" /\ Len(calls) = 5
    /\ ValuesOf(items) = <<1, 2, 6, 4, 5>> /\ calls[3].op.act = "replace"
    /\ calls[4].at = 3

\* ------------------------------------------------------------------ C34
\* The body of the loop of edit, `edit(Slot::new(items, index, &mut stride));
\* index += stride.get()`, applied to the list and index st with a closure
\* that does op.
C34_EditBody(st, op) ==
    LET l1 == IF op.w # 0 THEN SlotWrite(st.items, st.index, op.w) ELSE st.items
        r  == SlotCall(op, l1, st.index)
    IN  [items |-> r.list, index |-> st.index + r.stride]

C34_NeverFailed == \A j \in 1..Len(calls) : calls[j].op.ret = "ok"

C34_Step ==
    (calls' # calls /\ calls'[Len(calls')].op.ret = "ok") =>
        LET st == C34_EditBody([items |-> items, index |-> index],
                               calls'[Len(calls')].op)
        IN  /\ calls'[Len(calls')].at = index
            /\ items' = st.items
            /\ index' = st.index
            /\ pc' = "loop"

\* C34: as long as no call has failed, a walk of try_edit is the walk of edit
\* with the same edits: it starts as edit does, every call is made at the
\* position edit has reached and leaves the list and the index the body of
\* edit's loop leaves, the walk goes on exactly when that of edit does, and
\* at its end try_edit has returned Ok(()).  A closure that decides on the
\* value of the item makes the same decisions in both, item by item.
C34_TryEditIsEdit ==
    /\ [](calls = <<>> => items = Tagged(orig) /\ index = 0)
    /\ [][C34_Step]_vars
    /\ [](C34_NeverFailed =>
            /\ cb.kind # "any" =>
                  \A j \in 1..Len(calls) : calls[j].op = Decide(cb, orig[j])
            /\ pc = "loop" => (index < Len(items) <=> Len(calls) < Len(orig))
            /\ pc = "done" =>
                  /\ Len(calls) = Len(orig)
                  /\ result = IF fn = "try_edit" THEN "ok" ELSE "unit")

C34_Witness ==
    /\ fn = "try_edit" /\ cb.kind = "any" /\ orig = <<1, 2, 3>> /\ pc = "done"
    /\ result = "ok" /\ C34_NeverFailed /\ Len(calls) = 3
    /\ calls[1].op.act = "insert_after" /\ Len(calls[1].op.its) = 1
    /\ calls[2].op.act = "remove" /\ calls[3].op.act = "replace_with"
    /\ calls[3].op.b = 2 /\ ValuesOf(items) = <<1, 6, 6, 7>> /\ index = 4

\* ------------------------------------------------------------------ C35
\* The list l with the items its put in at index i.
C35_Spliced(l, i, its) == SubSeq(l, 1, i) \o its \o SubSeq(l, i + 1, Len(l))

C35_Same(l, i, its) ==
    LET r == ListInsert(l, i, its)
        n == Len(its)
    IN  /\ r = C35_Spliced(l, i, its)
        /\ Len(r) = Len(l) + n
        /\ \A k \in 1..i : r[k] = l[k]
        /\ \A k \in 1..n : r[i + k] = its[k]
        /\ \A k \in (i + 1)..Len(l) : r[k + n] = l[k]
        /\ n = 0 => r = l

C35_Step ==
    LET op == calls'[Len(calls')].op
        l1 == IF op.w # 0 THEN SlotWrite(items, index, op.w) ELSE items
    IN  /\ Took("insert_before") => items' = C35_Spliced(l1, index, New(op.its))
        /\ Took("insert_after") => items' = C35_Spliced(l1, index + 1, New(op.its))

\* C35: List::insert of SmallVec, n single inserts at index, index + 1, ...,
\* puts the n items at index .. index + n - 1 in their order and moves the
\* items that were at index and after it n places to the right; the length
\* grows by n, and with no items nothing changes: for every list a walk
\* starts from, every index up to its length and every item list, and at
\* every insert of a walk; [6,7,8] at 2 in [1,2,3,4,5] gives
\* [1,2,6,7,8,3,4,5].
C35_InsertKeepsOrder ==
    /\ [][C35_Step]_vars
    /\ [](calls = <<>> =>
            \A i \in 0..Len(items) : \A its \in C16_ItemLists :
                C35_Same(items, i, its))
    /\ [](ValuesOf(ListInsert(Tagged(DocList), 2, New(<<6, 7, 8>>)))
            = <<1, 2, 6, 7, 8, 3, 4, 5>>)

\* The walk of the test just after its insert_before at the item 3.
C35_Witness ==
    /\ cb.kind = "single" /\ cb.act = "insert_before" /\ cb.w = 0
    /\ cb.A = <<6, 7, 8>> /\ cb.x = 3 /\ orig = DocList /\ pc = "loop"
    /\ Len(calls) = 3 /\ index = 6 /\ stride = 4
    /\ ValuesOf(items) = <<1, 2, 6, 7, 8, 3, 4, 5>>

====
